---- MODULE Spec2Model ----
(***************************************************************************)
(* Model of the Go API layer of minisqlengine: Engine.Query and the        *)
(* handler returned by handleQuery (authorization, body decoding, audit    *)
(* log, context with timeout, engine goroutine, select).                   *)
(*                                                                         *)
(* Time is counted in milliseconds.  Statements of a goroutine take no     *)
(* time: the clock moves only while every goroutine is blocked (in         *)
(* time.Sleep, or in the select with no case ready), and then to the next  *)
(* instant at which a timer expires.  Cancellation of the inbound          *)
(* request's context is an event of the environment and may happen at any  *)
(* moment.                                                                 *)
(***************************************************************************)
EXTENDS Integers, Sequences, FiniteSets, TLC

VARIABLES
    token,      \* os.Getenv("API_TOKEN"), read when the handler is built
    devMode,    \* os.Getenv("DEV_MODE") == "1"
    e,          \* the Engine: [columns, rows]
    now,        \* the clock, in ms
    inbound,    \* request id -> [auth, body]: the *http.Request
    rctx,       \* request id -> r.Context() is cancelled
    pc,         \* request id -> position of the handler
    req,        \* request id -> the handler's QueryRequest variable
    w,          \* request id -> the http.ResponseWriter: what was written
    auditLog,   \* request id -> what the request sent to log.Printf
    ctx,        \* request id -> the context made by context.WithTimeout
    g,          \* request id -> the engine goroutine
    resultCh,   \* request id -> chan QueryResponse, capacity 1
    errCh,      \* request id -> chan error, capacity 1
    events      \* request id -> history of the steps of the handler and the goroutine

cfgVars == <<token, devMode, e, inbound>>
vars == <<token, devMode, e, now, inbound, rctx, pc, req, w, auditLog, ctx,
          g, resultCh, errCh, events>>

(***************************************************************************)
(* Bounds of the model.                                                    *)
(***************************************************************************)
MaxRows == 3

(***************************************************************************)
(* Constants of the program.                                               *)
(***************************************************************************)
StatusOK == 200
StatusBadRequest == 400
StatusUnauthorized == 401
StatusRequestTimeout == 408
SleepMS == 200
DefaultTimeoutMS == 5000
ChanCap == 1

Min(S) == CHOOSE x \in S : \A y \in S : x <= y

(***************************************************************************)
(* int64, the type of QueryRequest.TimeoutMS (int) and of time.Duration:   *)
(* four limbs of 16 bits, the least significant first, in two's            *)
(* complement.  Multiplication wraps around as that of Go does.            *)
(***************************************************************************)
Limb == 2^16

\* The int64 of an integer n, -2^31 < n < 2^31.
Int64(n) ==
    <<n % Limb,
      (n \div Limb) % Limb,
      IF n < 0 THEN Limb - 1 ELSE 0,
      IF n < 0 THEN Limb - 1 ELSE 0>>

IsNegative(x) == x[4] >= Limb \div 2
IsZero(x) == x = <<0, 0, 0, 0>>
IsPositive(x) == ~IsNegative(x) /\ ~IsZero(x)

\* The one element of a set of one element.
The(S) == CHOOSE y \in S : TRUE

\* x * k modulo 2^64, for 0 <= k <= 1000.
MulSmall(x, k) ==
    The({LET a1 == v[1] * k
             a2 == v[2] * k + a1 \div Limb
             a3 == v[3] * k + a2 \div Limb
             a4 == v[4] * k + a3 \div Limb
         IN  <<a1 % Limb, a2 % Limb, a3 % Limb, a4 % Limb>> : v \in {x}})

\* x / k, for x >= 0 and 0 < k <= 1000.
DivSmall(x, k) ==
    The({LET b4 == v[4]
             b3 == (b4 % k) * Limb + v[3]
             b2 == (b3 % k) * Limb + v[2]
             b1 == (b2 % k) * Limb + v[1]
         IN  <<b1 \div k, b2 \div k, b3 \div k, b4 \div k>> : v \in {x}})

\* d * time.Millisecond: time.Millisecond is 1000 * 1000 nanoseconds.
MulMillisecond(d) == MulSmall(MulSmall(d, 1000), 1000)

\* The whole milliseconds of a time.Duration d >= 0.
DivMillisecond(d) == DivSmall(DivSmall(d, 1000), 1000)

\* The integer of an int64 x, 0 <= x < 2^31.
ToInt(x) == The({v[1] + v[2] * Limb : v \in {x}})

(***************************************************************************)
(* Data.                                                                   *)
(***************************************************************************)
\* A nil pointer or nil error is the empty sequence, a set one a sequence
\* of length one.
Nil == << >>

APIError(code, message) == [code |-> code, message |-> message]

QueryResponse(columns, rows, error) ==
    [columns |-> columns, rows |-> rows, error |-> error]

ZeroResponse == QueryResponse(<< >>, << >>, Nil)

ErrorResponse(code, message) ==
    QueryResponse(<< >>, << >>, <<APIError(code, message)>>)

QueryRequest(sql, limit, offset, timeoutMS) ==
    [sql |-> sql, limit |-> limit, offset |-> offset, timeout_ms |-> timeoutMS]

ZeroRequest == QueryRequest("", 0, 0, Int64(0))

\* The i-th row of an engine; NewEngine holds the first one only.
Row(i) == IF i = 1 THEN <<1, "Alice">> ELSE <<i, "user">>

EngineOf(n) == [columns |-> <<"id", "name">>, rows |-> [i \in 1..n |-> Row(i)]]

NewEngine == EngineOf(1)

\* json.Encoder.Encode of a QueryResponse: the keys present on the wire.
\* Every field is omitempty: an empty slice and a nil pointer are left out.
Encode(resp) ==
    LET keys == (IF Len(resp.columns) > 0 THEN {"columns"} ELSE {})
                \cup (IF Len(resp.rows) > 0 THEN {"rows"} ELSE {})
                \cup (IF resp.error # Nil THEN {"error"} ELSE {})
    IN  [keys |-> keys,
         columns |-> resp.columns,
         rows |-> resp.rows,
         error |-> resp.error]

(***************************************************************************)
(* Engine.Query.                                                           *)
(***************************************************************************)
\* What Paginate yields when a slice expression panics with "slice bounds
\* out of range": no row of an engine has a negative id.
Panic == << <<-1, "panic">> >>

\* rows[offset:] and rows[:limit] of Go; they panic when the index is
\* negative or beyond the capacity, which for the rows of an engine and
\* their tails is the length.
SliceFrom(s, lo) ==
    IF lo < 0 \/ lo > Len(s) THEN Panic ELSE SubSeq(s, lo + 1, Len(s))
SliceTo(s, hi) ==
    IF hi < 0 \/ hi > Len(s) THEN Panic ELSE SubSeq(s, 1, hi)

\* Paginate with the limit applied before the offset.
\* Paginate with no guard against a negative offset or limit.
PaginateUnguarded(rows, limit, offset) ==
    LET dropped == IF offset # 0
                   THEN IF offset >= Len(rows) THEN << >>
                        ELSE SliceFrom(rows, offset)
                   ELSE rows
    IN  IF dropped = Panic THEN Panic
        ELSE IF limit # 0 /\ limit < Len(dropped)
        THEN SliceTo(dropped, limit)
        ELSE dropped

PaginateLimitFirst(rows, limit, offset) ==
    LET cut == IF limit > 0 /\ limit < Len(rows)
               THEN SliceTo(rows, limit)
               ELSE rows
    IN  IF offset > 0
        THEN IF offset >= Len(cut) THEN << >> ELSE SliceFrom(cut, offset)
        ELSE cut

Paginate(rows, limit, offset) ==
    LET dropped == IF offset > 0
                   THEN IF offset >= Len(rows) THEN << >>
                        ELSE SliceFrom(rows, offset)
                   ELSE rows
    IN  IF dropped = Panic THEN Panic
        ELSE IF limit > 0 /\ limit < Len(dropped)
        THEN SliceTo(dropped, limit)
        ELSE dropped

\* The time Engine.Query sleeps: the SQL "SLEEP" simulates a slow query.
QueryLatencyMS(sql) ==
    IF sql = "" THEN 0
    ELSE IF sql = "SLEEP" THEN SleepMS ELSE 0

\* Query without the test of the empty SQL.
QueryAcceptsEmptySQL(eng, sql, limit, offset) ==
    [resp |-> QueryResponse(eng.columns, Paginate(eng.rows, limit, offset), Nil),
     err |-> Nil]

\* The value Engine.Query returns: [resp, err].
Query(eng, sql, limit, offset) ==
    IF sql = ""
    THEN [resp |-> ZeroResponse, err |-> <<"empty SQL">>]
    ELSE [resp |-> QueryResponse(eng.columns, Paginate(eng.rows, limit, offset), Nil),
          err |-> Nil]

(***************************************************************************)
(* The inputs.                                                             *)
(***************************************************************************)
Tokens == {"", "secret"}

\* r.Header.Get("Authorization"); "" when the header is absent.
AuthHeaders == {"", "Bearer secret", "Bearer wrong", "secret"}

SQLs == {"", "SLEEP", "SELECT * FROM users"}

Limits == -1..MaxRows
Offsets == -1..MaxRows
TimeoutsMS == {Int64(t) : t \in {-1, 0, 10, 200, 300}}

\* A body json.Decoder cannot decode into a QueryRequest.
MalformedBody == [ok |-> FALSE, val |-> ZeroRequest]

Bodies ==
    {MalformedBody} \cup
    {[ok |-> TRUE, val |-> QueryRequest(s, l, o, t)] :
        s \in SQLs, l \in Limits, o \in Offsets, t \in TimeoutsMS}

Inbounds == [auth : AuthHeaders, body : Bodies]

\* err.Error() of the decoder's error.
DecodeError == "invalid character"

(***************************************************************************)
(* The state after handleQuery(e) has built the handler and a request has  *)
(* arrived.                                                                *)
(***************************************************************************)
NoWrite == [codes |-> << >>, bodies |-> << >>, ctype |-> ""]
NoContext ==
    [active |-> FALSE, created |-> 0, timeout |-> Int64(0), deadline |-> 0,
     err |-> "none"]
NoGoroutine == [pc |-> "none", wakeAt |-> 0, out |-> [resp |-> ZeroResponse, err |-> Nil]]

\* The handler of each request before its first statement.
InitHandlers(ids) ==
    /\ rctx = [r \in ids |-> FALSE]
    /\ pc = [r \in ids |-> "auth"]
    /\ req = [r \in ids |-> ZeroRequest]
    /\ w = [r \in ids |-> NoWrite]
    /\ auditLog = [r \in ids |-> << >>]
    /\ ctx = [r \in ids |-> NoContext]
    /\ g = [r \in ids |-> NoGoroutine]
    /\ resultCh = [r \in ids |-> << >>]
    /\ errCh = [r \in ids |-> << >>]
    /\ events = [r \in ids |-> << >>]

InitRequests(ids) ==
    /\ inbound \in [ids -> Inbounds]
    /\ InitHandlers(ids)

Init ==
    /\ token \in Tokens
    /\ devMode \in BOOLEAN
    /\ e \in {EngineOf(n) : n \in 1..MaxRows}
    /\ now = 0
    /\ InitRequests({1})

Requests == DOMAIN inbound

(***************************************************************************)
(* The handler.                                                            *)
(***************************************************************************)
\* w.WriteHeader(code); json.NewEncoder(w).Encode(resp)
Write(r, code, resp) ==
    w' = [w EXCEPT ![r].codes = Append(@, code),
                   ![r].bodies = Append(@, Encode(resp))]

Log(r, what) == events' = [events EXCEPT ![r] = @ \o what]

\* Unauthorized without the test of devMode.
UnauthorizedIgnoringDevMode(auth) ==
    /\ token # ""
    /\ auth # "Bearer " \o token

\* The condition under which the handler answers 401.
Unauthorized(auth) ==
    /\ ~devMode
    /\ token # ""
    /\ auth # "Bearer " \o token

\* HandleAuth without the return after the 401.
HandleAuthNoReturn(r) ==
    /\ pc[r] = "auth"
    /\ IF Unauthorized(inbound[r].auth)
       THEN /\ Log(r, <<"authorize", "respond unauthorized">>)
            /\ Write(r, StatusUnauthorized,
                     ErrorResponse(StatusUnauthorized, "unauthorized"))
       ELSE /\ Log(r, <<"authorize">>)
            /\ UNCHANGED w
    /\ pc' = [pc EXCEPT ![r] = "decode"]
    /\ UNCHANGED <<cfgVars, now, rctx, req, auditLog, ctx, g, resultCh, errCh>>

HandleAuth(r) ==
    /\ pc[r] = "auth"
    /\ IF Unauthorized(inbound[r].auth)
       THEN /\ Log(r, <<"authorize", "respond unauthorized">>)
            /\ Write(r, StatusUnauthorized,
                     ErrorResponse(StatusUnauthorized, "unauthorized"))
            /\ pc' = [pc EXCEPT ![r] = "done"]
       ELSE /\ Log(r, <<"authorize">>)
            /\ pc' = [pc EXCEPT ![r] = "decode"]
            /\ UNCHANGED w
    /\ UNCHANGED <<cfgVars, now, rctx, req, auditLog, ctx, g, resultCh, errCh>>

\* HandleDecode without the return after the 400.
HandleDecodeNoReturn(r) ==
    /\ pc[r] = "decode"
    /\ IF ~inbound[r].body.ok
       THEN /\ Log(r, <<"decode", "respond malformed">>)
            /\ Write(r, StatusBadRequest,
                     ErrorResponse(StatusBadRequest, DecodeError))
            /\ UNCHANGED req
       ELSE /\ Log(r, <<"decode">>)
            /\ req' = [req EXCEPT ![r] = inbound[r].body.val]
            /\ UNCHANGED w
    /\ pc' = [pc EXCEPT ![r] = "audit"]
    /\ UNCHANGED <<cfgVars, now, rctx, auditLog, ctx, g, resultCh, errCh>>

HandleDecode(r) ==
    /\ pc[r] = "decode"
    /\ IF ~inbound[r].body.ok
       THEN /\ Log(r, <<"decode", "respond malformed">>)
            /\ Write(r, StatusBadRequest,
                     ErrorResponse(StatusBadRequest, DecodeError))
            /\ pc' = [pc EXCEPT ![r] = "done"]
            /\ UNCHANGED req
       ELSE /\ Log(r, <<"decode">>)
            /\ req' = [req EXCEPT ![r] = inbound[r].body.val]
            /\ pc' = [pc EXCEPT ![r] = "audit"]
            /\ UNCHANGED w
    /\ UNCHANGED <<cfgVars, now, rctx, auditLog, ctx, g, resultCh, errCh>>

\* HandleAudit without the call of log.Printf.
HandleAuditSilent(r) ==
    /\ pc[r] = "audit"
    /\ Log(r, <<"audit">>)
    /\ pc' = [pc EXCEPT ![r] = "start"]
    /\ UNCHANGED <<cfgVars, now, rctx, req, w, auditLog, ctx, g, resultCh, errCh>>

\* log.Printf("query: %s", req.SQL)
HandleAudit(r) ==
    /\ pc[r] = "audit"
    /\ Log(r, <<"audit">>)
    /\ auditLog' = [auditLog EXCEPT ![r] = Append(@, "query: " \o req[r].sql)]
    /\ pc' = [pc EXCEPT ![r] = "start"]
    /\ UNCHANGED <<cfgVars, now, rctx, req, w, ctx, g, resultCh, errCh>>

\* 5 * time.Second
FiveSeconds == MulMillisecond(Int64(DefaultTimeoutMS))

\* EffectiveTimeout with time.Second in the place of time.Millisecond.
EffectiveTimeoutSeconds(timeoutMS) ==
    LET timeout == MulSmall(MulMillisecond(timeoutMS), 1000)
    IN  IF IsNegative(timeout) \/ IsZero(timeout) THEN FiveSeconds ELSE timeout

\* timeout := time.Duration(req.TimeoutMS) * time.Millisecond, and
\* 5 * time.Second when that is <= 0: an int64 of nanoseconds.
EffectiveTimeout(timeoutMS) ==
    LET timeout == MulMillisecond(timeoutMS)
    IN  IF IsNegative(timeout) \/ IsZero(timeout) THEN FiveSeconds ELSE timeout

\* The effective timeout in the unit of the clock.
EffectiveTimeoutMS(timeoutMS) == ToInt(DivMillisecond(EffectiveTimeout(timeoutMS)))

\* context.WithTimeout(r.Context(), timeout), the two channels, and the go
\* statement.  A context made from a cancelled parent is cancelled at once.
HandleStart(r) ==
    /\ pc[r] = "start"
    /\ Log(r, <<"start">>)
    /\ ctx' = [ctx EXCEPT ![r] =
                 [active |-> TRUE,
                  created |-> now,
                  timeout |-> EffectiveTimeout(req[r].timeout_ms),
                  deadline |-> now + EffectiveTimeoutMS(req[r].timeout_ms),
                  err |-> IF rctx[r] THEN "Canceled" ELSE "none"]]
    /\ resultCh' = [resultCh EXCEPT ![r] = << >>]
    /\ errCh' = [errCh EXCEPT ![r] = << >>]
    /\ g' = [g EXCEPT ![r].pc = "spawned"]
    /\ pc' = [pc EXCEPT ![r] = "select"]
    /\ UNCHANGED <<cfgVars, now, rctx, req, w, auditLog>>

\* defer cancel()
Cancel(c) == IF c.err = "none" THEN [c EXCEPT !.err = "Canceled"] ELSE c

\* case <-ctx.Done()
SelectDone(r) ==
    /\ pc[r] = "select"
    /\ ctx[r].err # "none"
    /\ Log(r, <<"respond " \o ctx[r].err>>)
    /\ Write(r, StatusRequestTimeout,
             ErrorResponse(StatusRequestTimeout, "timeout"))
    /\ pc' = [pc EXCEPT ![r] = "done"]
    /\ UNCHANGED <<cfgVars, now, rctx, req, auditLog, ctx, g, resultCh, errCh>>

\* SelectErr calling the engine again after a failure.
SelectErrRetry(r) ==
    /\ pc[r] = "select"
    /\ Len(errCh[r]) > 0
    /\ errCh' = [errCh EXCEPT ![r] = Tail(@)]
    /\ g' = [g EXCEPT ![r].pc = "spawned"]
    /\ UNCHANGED <<cfgVars, now, rctx, pc, req, w, auditLog, ctx, resultCh, events>>

\* SelectErr with a code in the body that is not the status written.
SelectErrWrongCode(r) ==
    /\ pc[r] = "select"
    /\ Len(errCh[r]) > 0
    /\ Log(r, <<"respond failed">>)
    /\ errCh' = [errCh EXCEPT ![r] = Tail(@)]
    /\ Write(r, StatusBadRequest, ErrorResponse(500, Head(errCh[r])))
    /\ ctx' = [ctx EXCEPT ![r] = Cancel(@)]
    /\ pc' = [pc EXCEPT ![r] = "done"]
    /\ UNCHANGED <<cfgVars, now, rctx, req, auditLog, g, resultCh>>

\* case err := <-errCh
SelectErr(r) ==
    /\ pc[r] = "select"
    /\ Len(errCh[r]) > 0
    /\ Log(r, <<"respond failed">>)
    /\ errCh' = [errCh EXCEPT ![r] = Tail(@)]
    /\ Write(r, StatusBadRequest,
             ErrorResponse(StatusBadRequest, Head(errCh[r])))
    /\ ctx' = [ctx EXCEPT ![r] = Cancel(@)]
    /\ pc' = [pc EXCEPT ![r] = "done"]
    /\ UNCHANGED <<cfgVars, now, rctx, req, auditLog, g, resultCh>>

\* SelectResult not waiting for the engine: it writes the zero response
\* when resultCh is empty.
SelectResultEager(r) ==
    /\ pc[r] = "select"
    /\ Log(r, <<"respond completed">>)
    /\ resultCh' = [resultCh EXCEPT ![r] = IF Len(@) > 0 THEN Tail(@) ELSE @]
    /\ w' = [w EXCEPT ![r].ctype = "application/json",
                      ![r].codes = Append(@, StatusOK),
                      ![r].bodies = Append(@, Encode(IF Len(resultCh[r]) > 0
                                                     THEN Head(resultCh[r])
                                                     ELSE ZeroResponse))]
    /\ ctx' = [ctx EXCEPT ![r] = Cancel(@)]
    /\ pc' = [pc EXCEPT ![r] = "done"]
    /\ UNCHANGED <<cfgVars, now, rctx, req, auditLog, g, errCh>>

\* case resp := <-resultCh
SelectResult(r) ==
    /\ pc[r] = "select"
    /\ Len(resultCh[r]) > 0
    /\ Log(r, <<"respond completed">>)
    /\ resultCh' = [resultCh EXCEPT ![r] = Tail(@)]
    /\ w' = [w EXCEPT ![r].ctype = "application/json",
                      ![r].codes = Append(@, StatusOK),
                      ![r].bodies = Append(@, Encode(Head(resultCh[r])))]
    /\ ctx' = [ctx EXCEPT ![r] = Cancel(@)]
    /\ pc' = [pc EXCEPT ![r] = "done"]
    /\ UNCHANGED <<cfgVars, now, rctx, req, auditLog, g, errCh>>

\* Select without the case of ctx.Done().
SelectNoDone(r) ==
    \/ SelectErr(r)
    \/ SelectResult(r)

\* The select statement: one of the cases that can proceed, any of them.
Select(r) ==
    \/ SelectDone(r)
    \/ SelectErr(r)
    \/ SelectResult(r)

(***************************************************************************)
(* The engine goroutine.                                                   *)
(***************************************************************************)
\* Engine.Query returns to the goroutine, or panics in it.
Returned(gr, out) ==
    [gr EXCEPT !.pc = IF out.resp.rows = Panic THEN "panic" ELSE "ret",
               !.out = out]

\* GoCall with Engine.Query storing the page it made in the engine.
GoCallStoring(r) ==
    /\ g[r].pc = "spawned"
    /\ Log(r, <<"query">>)
    /\ IF QueryLatencyMS(req[r].sql) > 0
       THEN /\ g' = [g EXCEPT ![r].pc = "sleep",
                              ![r].wakeAt = now + QueryLatencyMS(req[r].sql)]
            /\ UNCHANGED e
       ELSE /\ g' = [g EXCEPT ![r] =
                       Returned(@, Query(e, req[r].sql, req[r].limit, req[r].offset))]
            /\ e' = [e EXCEPT !.rows =
                       Query(e, req[r].sql, req[r].limit, req[r].offset).resp.rows]
    /\ UNCHANGED <<token, devMode, inbound, now, rctx, pc, req, w, auditLog, ctx,
                   resultCh, errCh>>

\* The call of e.Query up to its first return or its time.Sleep.
GoCall(r) ==
    /\ g[r].pc = "spawned"
    /\ Log(r, <<"query">>)
    /\ IF QueryLatencyMS(req[r].sql) > 0
       THEN g' = [g EXCEPT ![r].pc = "sleep",
                           ![r].wakeAt = now + QueryLatencyMS(req[r].sql)]
       ELSE g' = [g EXCEPT ![r] =
                    Returned(@, Query(e, req[r].sql, req[r].limit, req[r].offset))]
    /\ UNCHANGED <<cfgVars, now, rctx, pc, req, w, auditLog, ctx, resultCh, errCh>>

\* time.Sleep returns; the rest of e.Query.
GoWake(r) ==
    /\ g[r].pc = "sleep"
    /\ now >= g[r].wakeAt
    /\ Log(r, <<"wake">>)
    /\ g' = [g EXCEPT ![r] =
                 Returned(@, Query(e, req[r].sql, req[r].limit, req[r].offset))]
    /\ UNCHANGED <<cfgVars, now, rctx, pc, req, w, auditLog, ctx, resultCh, errCh>>

\* GoSend with one pair of channels made by handleQuery for all requests.
GoSendShared(r) ==
    LET c == Min(Requests)
    IN  /\ g[r].pc = "ret"
        /\ Log(r, <<"send">>)
        /\ IF g[r].out.err # Nil
           THEN /\ Len(errCh[c]) < ChanCap
                /\ errCh' = [errCh EXCEPT ![c] = Append(@, Head(g[r].out.err))]
                /\ UNCHANGED resultCh
           ELSE /\ Len(resultCh[c]) < ChanCap
                /\ resultCh' = [resultCh EXCEPT ![c] = Append(@, g[r].out.resp)]
                /\ UNCHANGED errCh
        /\ g' = [g EXCEPT ![r].pc = "exit"]
        /\ UNCHANGED <<cfgVars, now, rctx, pc, req, w, auditLog, ctx>>

\* GoSend on channels without a buffer: the send proceeds only while the
\* handler is receiving in its select.
GoSendUnbuffered(r) ==
    /\ g[r].pc = "ret"
    /\ pc[r] = "select"
    /\ Log(r, <<"send">>)
    /\ IF g[r].out.err # Nil
       THEN /\ errCh' = [errCh EXCEPT ![r] = Append(@, Head(g[r].out.err))]
            /\ UNCHANGED resultCh
       ELSE /\ resultCh' = [resultCh EXCEPT ![r] = Append(@, g[r].out.resp)]
            /\ UNCHANGED errCh
    /\ g' = [g EXCEPT ![r].pc = "exit"]
    /\ UNCHANGED <<cfgVars, now, rctx, pc, req, w, auditLog, ctx>>

\* errCh <- err, or resultCh <- resp; a send blocks while the buffer is full.
GoSend(r) ==
    /\ g[r].pc = "ret"
    /\ Log(r, <<"send">>)
    /\ IF g[r].out.err # Nil
       THEN /\ Len(errCh[r]) < ChanCap
            /\ errCh' = [errCh EXCEPT ![r] = Append(@, Head(g[r].out.err))]
            /\ UNCHANGED resultCh
       ELSE /\ Len(resultCh[r]) < ChanCap
            /\ resultCh' = [resultCh EXCEPT ![r] = Append(@, g[r].out.resp)]
            /\ UNCHANGED errCh
    /\ g' = [g EXCEPT ![r].pc = "exit"]
    /\ UNCHANGED <<cfgVars, now, rctx, pc, req, w, auditLog, ctx>>

(***************************************************************************)
(* The context's timer, the inbound request's context, and the clock.      *)
(***************************************************************************)
\* The timer of context.WithTimeout expires.
DeadlineFire(r) ==
    /\ ctx[r].active
    /\ ctx[r].err = "none"
    /\ now >= ctx[r].deadline
    /\ ctx' = [ctx EXCEPT ![r].err = "DeadlineExceeded"]
    /\ UNCHANGED <<cfgVars, now, rctx, pc, req, w, auditLog, g, resultCh, errCh, events>>

\* r.Context() is cancelled (the client went away) while the handler runs;
\* the cancellation reaches the context derived from it.
RequestCancel(r) ==
    /\ pc[r] # "done"
    /\ ~rctx[r]
    /\ rctx' = [rctx EXCEPT ![r] = TRUE]
    /\ ctx' = [ctx EXCEPT ![r] = IF @.active THEN Cancel(@) ELSE @]
    /\ UNCHANGED <<cfgVars, now, pc, req, w, auditLog, g, resultCh, errCh, events>>

\* A step of the program for request r.
Program(r) ==
    \/ HandleAuth(r)
    \/ HandleDecode(r)
    \/ HandleAudit(r)
    \/ HandleStart(r)
    \/ Select(r)
    \/ GoCall(r)
    \/ GoWake(r)
    \/ GoSend(r)
    \/ DeadlineFire(r)

\* The instants at which a running timer expires.
Timers ==
    {ctx[r].deadline : r \in {x \in Requests : ctx[x].active /\ ctx[x].err = "none"}}
    \cup {g[r].wakeAt : r \in {x \in Requests : g[x].pc = "sleep"}}

\* Time passes, to the next expiry, when no goroutine can take a step.
Advance ==
    /\ \A r \in Requests : ~ENABLED Program(r)
    /\ Timers # {}
    /\ now' = Min(Timers)
    /\ UNCHANGED <<cfgVars, rctx, pc, req, w, auditLog, ctx, g, resultCh, errCh, events>>

Next ==
    \/ \E r \in Requests : HandleAuth(r)
    \/ \E r \in Requests : HandleDecode(r)
    \/ \E r \in Requests : HandleAudit(r)
    \/ \E r \in Requests : HandleStart(r)
    \/ \E r \in Requests : Select(r)
    \/ \E r \in Requests : GoCall(r)
    \/ \E r \in Requests : GoWake(r)
    \/ \E r \in Requests : GoSend(r)
    \/ \E r \in Requests : DeadlineFire(r)
    \/ \E r \in Requests : RequestCancel(r)
    \/ Advance

Spec == Init /\ [][Next]_vars

\* The requests of Init that leave limit and offset out, against NewEngine.
InitLive ==
    /\ Init
    /\ e = NewEngine
    /\ \A r \in Requests : /\ inbound[r].body.val.limit = 0
                            /\ inbound[r].body.val.offset = 0

\* Runnable goroutines are scheduled and timers fire.
LiveSpec ==
    /\ InitLive
    /\ [][Next]_vars
    /\ WF_vars(\E r \in Requests : Program(r))
    /\ WF_vars(Advance)

\* Two requests in flight against one handler and one engine of MaxRows
\* rows, with and without the credential, over bodies of every outcome.
ConcurrentBodies ==
    {MalformedBody} \cup
    {[ok |-> TRUE, val |-> QueryRequest(b[1], b[2], b[3], Int64(b[4]))] :
        b \in {<<"", 0, 0, 0>>,
                <<"SLEEP", 0, 0, 10>>,
                <<"SLEEP", 0, 1, 300>>,
                <<"SELECT * FROM users", 0, 0, 0>>,
                <<"SELECT * FROM users", 1, 1, 0>>}}

InitConcurrent ==
    /\ token = "secret"
    /\ devMode = FALSE
    /\ e = EngineOf(MaxRows)
    /\ now = 0
    /\ inbound \in [{1, 2} -> [auth : {"", "Bearer secret"}, body : ConcurrentBodies]]
    /\ InitHandlers({1, 2})

ConcurrentSpec == InitConcurrent /\ [][Next]_vars

\* Values of timeout_ms whose product with time.Millisecond does not fit an
\* int64: 9223372036855 and 18446744073709552.
LargeTimeoutsMS == {<<23287, 31696, 2147, 0>>, <<42992, 19398, 35127, 65>>}

\* One request that passes the gate, with each timeout_ms.
InitTimeout ==
    /\ token = ""
    /\ devMode = FALSE
    /\ e = NewEngine
    /\ now = 0
    /\ inbound \in [{1} -> [auth : {""},
                            body : {[ok |-> TRUE, val |-> QueryRequest(q, 0, 0, t)] :
                                       q \in SQLs, t \in TimeoutsMS \cup LargeTimeoutsMS}]]
    /\ InitHandlers({1})

TimeoutSpec == InitTimeout /\ [][Next]_vars

(***************************************************************************)
(* What the claims speak of.                                               *)
(***************************************************************************)
Responded(r) == pc[r] = "done"

\* The status and the body the caller receives.
Status(r) == Head(w[r].codes)
Body(r) == Head(w[r].bodies)

Has(seq, ev) == \E i \in 1..Len(seq) : seq[i] = ev
Count(seq, ev) == Cardinality({i \in 1..Len(seq) : seq[i] = ev})
Precedes(seq, a, b) ==
    \E i, j \in 1..Len(seq) : i < j /\ seq[i] = a /\ seq[j] = b

RespondEvents ==
    {"respond unauthorized", "respond malformed", "respond Canceled",
     "respond DeadlineExceeded", "respond failed", "respond completed"}

Outcomes(r) == {i \in 1..Len(events[r]) : events[r][i] \in RespondEvents}

\* The Authorization Gate as the specification states it.
GateAccepts(auth) ==
    \/ devMode
    \/ token = ""
    \/ auth = "Bearer " \o token

\* The effective timeout as the specification states it.
StatedTimeoutMS(r) ==
    IF IsPositive(inbound[r].body.val.timeout_ms)
    THEN ToInt(inbound[r].body.val.timeout_ms)
    ELSE 5000

WellFormed(r) == inbound[r].body.ok
Accepted(r) == GateAccepts(inbound[r].auth)

IsError(r, code) ==
    /\ Status(r) = code
    /\ Body(r).keys = {"error"}
    /\ Head(Body(r).error).code = code

(***************************************************************************)
(* C1: under every interleaving of the engine goroutine, the deadline and  *)
(* the cancellation, a request has no outcome and no response until the    *)
(* handler is done, and exactly one outcome, one status and one body once  *)
(* it is; a second status or body is never written.                        *)
(***************************************************************************)
C1_ExactlyOneResponse ==
    \A r \in Requests :
        /\ Len(w[r].codes) = Len(w[r].bodies)
        /\ Cardinality(Outcomes(r)) = Len(w[r].codes)
        /\ Len(w[r].codes) = IF Responded(r) THEN 1 ELSE 0

\* The deadline and the engine's result were both ready when the select ran.
C1_Witness ==
    \E r \in Requests :
        /\ Responded(r)
        /\ Precedes(events[r], "send", "respond DeadlineExceeded")
        /\ Len(resultCh[r]) = 1
        /\ Len(w[r].codes) = 1

(***************************************************************************)
(* C2: an authorized, well-formed request whose effective timeout is       *)
(* smaller than the engine's latency is answered 408 with an error body,   *)
(* and stays so after the engine has produced its result.                  *)
(***************************************************************************)
TimeoutBeforeEngine(r) ==
    /\ Accepted(r)
    /\ WellFormed(r)
    /\ StatedTimeoutMS(r) < QueryLatencyMS(inbound[r].body.val.sql)

C2_TimeoutNotStaleSuccess ==
    \A r \in Requests :
        (Responded(r) /\ TimeoutBeforeEngine(r)) =>
            /\ IsError(r, 408)
            /\ Head(Body(r).error).message = "timeout"
            /\ ~Has(events[r], "respond completed")

\* The engine's late result sits in the channel, and the answer is the 408.
C2_Witness ==
    \E r \in Requests :
        /\ Responded(r)
        /\ TimeoutBeforeEngine(r)
        /\ ctx[r].err = "DeadlineExceeded"
        /\ g[r].pc = "exit"
        /\ Len(resultCh[r]) = 1
        /\ Status(r) = 408

(***************************************************************************)
(* C3: every request is answered in the end, and the handler never waits   *)
(* in its select beyond the effective timeout counted from the start of    *)
(* the race, whatever the engine goroutine is doing.                       *)
(***************************************************************************)
AllResponded == \A r \in Requests : Responded(r)

NoWaitPastDeadline ==
    \A r \in Requests :
        pc[r] = "select" => now <= ctx[r].created + StatedTimeoutMS(r)

C3_RespondsWithinTimeout == <>AllResponded /\ []NoWaitPastDeadline

\* Answered at the deadline while the engine is still inside Engine.Query.
C3_Witness ==
    \E r \in Requests :
        /\ Responded(r)
        /\ g[r].pc = "sleep"
        /\ ctx[r].err = "DeadlineExceeded"
        /\ now = ctx[r].created + StatedTimeoutMS(r)

(***************************************************************************)
(* C4, as stated: a request that passes the Authorization Gate has exactly *)
(* one audit emission whatever its outcome, a malformed body included, and *)
(* a request that fails authorization has none.                            *)
(***************************************************************************)
C4_AuditPerAuthorized ==
    \A r \in Requests :
        Responded(r) => Len(auditLog[r]) = IF Accepted(r) THEN 1 ELSE 0

(***************************************************************************)
(* C4, amended: a request that passes the Authorization Gate and whose     *)
(* body decodes has exactly one audit emission, of its query text, made    *)
(* before its outcome; any other request has none.                         *)
(***************************************************************************)
C4_AuditPerDecoded ==
    \A r \in Requests :
        /\ Len(auditLog[r]) <= 1
        /\ Responded(r) =>
              auditLog[r] = IF Accepted(r) /\ WellFormed(r)
                            THEN <<"query: " \o inbound[r].body.val.sql>>
                            ELSE << >>

\* An authorized request with a malformed body: answered 400, nothing logged.
C4_Witness ==
    \E r \in Requests :
        /\ Responded(r)
        /\ Accepted(r)
        /\ ~WellFormed(r)
        /\ Status(r) = 400
        /\ auditLog[r] = << >>

(***************************************************************************)
(* C5: every body written has either both columns and rows, or error, on   *)
(* the wire: never both groups and never neither.                          *)
(***************************************************************************)
C5_WireInvariant ==
    \A r \in Requests :
        \A i \in 1..Len(w[r].bodies) :
            LET keys == w[r].bodies[i].keys
            IN  ({"columns", "rows"} \subseteq keys) # ("error" \in keys)

(***************************************************************************)
(* C6: a request is answered 401, right at the gate, exactly when dev mode *)
(* is off, the secret is not empty and the Authorization header is not     *)
(* "Bearer " followed by the secret; every other request goes on to the    *)
(* decoding of its body and is never answered 401.                         *)
(***************************************************************************)
C6_AuthorizationGate ==
    \A r \in Requests :
        pc[r] # "auth" =>
            /\ ~GateAccepts(inbound[r].auth) <=>
                  (Responded(r) /\ IsError(r, 401))
            /\ GateAccepts(inbound[r].auth) <=>
                  (pc[r] = "decode" \/ Has(events[r], "decode"))

\* Dev mode on, a secret configured, no header: not a 401.
C6_Witness ==
    \E r \in Requests :
        /\ devMode
        /\ token = "secret"
        /\ inbound[r].auth = ""
        /\ Responded(r)
        /\ Status(r) # 401

(***************************************************************************)
(* C7: an unauthorized request is answered 401 whatever its body, with no  *)
(* decoding, no audit emission and no engine goroutine; the 400 of a       *)
(* malformed body goes only to a request that passed the gate, and the     *)
(* decoding comes after the authorization.                                 *)
(***************************************************************************)
C7_AuthorizationBeforeParsing ==
    \A r \in Requests :
        /\ (~Accepted(r) /\ pc[r] # "auth") =>
              /\ events[r] = <<"authorize", "respond unauthorized">>
              /\ IsError(r, 401)
              /\ req[r] = ZeroRequest
              /\ auditLog[r] = << >>
              /\ g[r].pc = "none"
        /\ Has(events[r], "respond malformed") => Accepted(r)
        /\ Has(events[r], "decode") => events[r][1] = "authorize"

\* An unauthorized request with a malformed body: 401, not 400.
C7_Witness ==
    \E r \in Requests :
        /\ ~Accepted(r)
        /\ ~WellFormed(r)
        /\ Responded(r)
        /\ Status(r) = 401

(***************************************************************************)
(* C8: the answer is 408 only if the deadline of the effective timeout     *)
(* has elapsed; a cancellation of the inbound request's context before     *)
(* the deadline does not make the handler answer 408.                      *)
(***************************************************************************)
C8_TimeoutOnlyOnDeadline ==
    \A r \in Requests :
        (Responded(r) /\ Status(r) = 408) =>
            /\ ctx[r].err = "DeadlineExceeded"
            /\ now >= ctx[r].created + StatedTimeoutMS(r)

(***************************************************************************)
(* C9: the rows Engine.Query returns are the engine's rows from position   *)
(* offset on (none when offset >= their number, all when offset <= 0), cut *)
(* to the first limit of them when 0 < limit < their number: a contiguous  *)
(* run of the engine's rows in their order, of length <= limit when        *)
(* limit > 0.                                                              *)
(***************************************************************************)
StatedPage(rows, limit, offset, page) ==
    LET n == Len(rows)
        first == IF offset > 0 THEN (IF offset >= n THEN n ELSE offset) ELSE 0
        rest == n - first
        size == IF limit > 0 /\ limit < rest THEN limit ELSE rest
    IN  /\ Len(page) = size
        /\ \A i \in 1..size : page[i] = rows[first + i]
        /\ (offset >= n /\ offset > 0) => page = << >>
        /\ limit > 0 => Len(page) <= limit
        /\ limit = 0 => Len(page) = rest

C9_Pagination ==
    \A r \in Requests :
        (g[r].pc \in {"ret", "exit"} /\ g[r].out.err = Nil) =>
            /\ StatedPage(e.rows, req[r].limit, req[r].offset, g[r].out.resp.rows)
            /\ g[r].out.resp.columns = e.columns

\* Rows dropped at the front and cut at the back.
C9_Witness ==
    \E r \in Requests :
        /\ g[r].pc = "exit"
        /\ Len(e.rows) = 3
        /\ req[r].offset = 1
        /\ req[r].limit = 1
        /\ g[r].out.resp.rows = <<Row(2)>>

(***************************************************************************)
(* C10: an authorized, well-formed request with sql # "" and no forced     *)
(* delay is answered 200 with columns and rows and no error, for every     *)
(* limit, offset and timeout it carries (stated here for a caller that     *)
(* does not cancel its request: it fails for that caller already).         *)
(***************************************************************************)
C10_ValidRequestSucceeds ==
    \A r \in Requests :
        (/\ Responded(r)
         /\ ~rctx[r]
         /\ Accepted(r)
         /\ WellFormed(r)
         /\ inbound[r].body.val.sql # ""
         /\ QueryLatencyMS(inbound[r].body.val.sql) = 0) =>
            /\ Status(r) = 200
            /\ Body(r).keys = {"columns", "rows"}

(***************************************************************************)
(* C11: an authorized, well-formed request with sql = "" is answered with  *)
(* the engine failure: status 400, an error of code 400 whose message is   *)
(* the reason Engine.Query gives, and neither columns nor rows.            *)
(***************************************************************************)
EmptySQL(r) ==
    /\ Accepted(r)
    /\ WellFormed(r)
    /\ inbound[r].body.val.sql = ""

C11_EmptySQLIsExecutionFailure ==
    \A r \in Requests :
        (Responded(r) /\ EmptySQL(r)) =>
            /\ IsError(r, 400)
            /\ <<Head(Body(r).error).message>> =
                   Query(e, "", inbound[r].body.val.limit, inbound[r].body.val.offset).err

(***************************************************************************)
(* C12, as stated: Engine.Query of the empty string fails with the reason  *)
(* "empty query", and "empty query" is the message of the error in the     *)
(* response that reports the failure.                                      *)
(***************************************************************************)
EngineReturned(r) == g[r].pc \in {"ret", "exit"}

C12_ReasonEmptyQuery ==
    \A r \in Requests :
        /\ (EngineReturned(r) /\ req[r].sql = "") => g[r].out.err = <<"empty query">>
        /\ Has(events[r], "respond failed") =>
              Head(Body(r).error).message = "empty query"

(***************************************************************************)
(* C12, amended: Engine.Query fails exactly when sql is the empty string,  *)
(* with the reason "empty SQL", and "empty SQL" is the message of the      *)
(* error, of code 400, in the response that reports the failure.           *)
(***************************************************************************)
C12_ReasonEmptySQL ==
    \A r \in Requests :
        /\ EngineReturned(r) =>
              g[r].out.err = IF req[r].sql = "" THEN <<"empty SQL">> ELSE Nil
        /\ Has(events[r], "respond failed") =>
              /\ req[r].sql = ""
              /\ IsError(r, 400)
              /\ Head(Body(r).error).message = "empty SQL"

\* The failure of the empty SQL reached the caller.
C12_Witness ==
    \E r \in Requests :
        /\ Responded(r)
        /\ EmptySQL(r)
        /\ g[r].out.err = <<"empty SQL">>
        /\ Status(r) = 400
        /\ Head(Body(r).error).message = "empty SQL"

(***************************************************************************)
(* C13: two requests with the same sql, limit and offset get the same      *)
(* columns and rows from Engine.Query, whichever ran first and whatever    *)
(* other request ran before, and no step of a handler or of Engine.Query   *)
(* changes the engine's columns or rows.                                   *)
(***************************************************************************)
SameQuery(r, q) ==
    /\ req[r].sql = req[q].sql
    /\ req[r].limit = req[q].limit
    /\ req[r].offset = req[q].offset

SameResults ==
    \A r, q \in Requests :
        (EngineReturned(r) /\ EngineReturned(q) /\ SameQuery(r, q)) =>
            g[r].out = g[q].out

C13_Idempotent == []SameResults /\ [][e' = e]_vars

\* The same page of one row, cut from the middle, twice.
C13_Witness ==
    /\ \A r \in Requests : Responded(r) /\ g[r].pc = "exit" /\ Status(r) = 200
    /\ \A r \in Requests : req[r].offset = 1 /\ req[r].limit = 1
    /\ \A r \in Requests : Body(r).rows = <<Row(2)>>
    /\ Cardinality(Requests) = 2
    /\ e = EngineOf(MaxRows)

(***************************************************************************)
(* C14: with two requests in flight, the response of each is the one its   *)
(* own credential, body, engine result, deadline and cancellation          *)
(* determine, whatever happens to the other; every step touches the state  *)
(* of one request only, and none changes what the requests share (the      *)
(* secret, the dev mode, the engine).                                      *)
(***************************************************************************)
OwnOutcome(r) ==
    LET b == inbound[r].body.val
    IN  /\ Has(events[r], "respond unauthorized") <=> ~Accepted(r)
        /\ Has(events[r], "respond malformed") <=> (Accepted(r) /\ ~WellFormed(r))
        /\ Has(events[r], "respond completed") =>
              /\ Status(r) = 200
              /\ Body(r) = Encode(Query(e, b.sql, b.limit, b.offset).resp)
        /\ Has(events[r], "respond failed") =>
              /\ b.sql = ""
              /\ IsError(r, 400)
        /\ Has(events[r], "respond DeadlineExceeded") =>
              /\ now >= ctx[r].created + StatedTimeoutMS(r)
              /\ IsError(r, 408)
        /\ Has(events[r], "respond Canceled") =>
              /\ rctx[r]
              /\ IsError(r, 408)

OwnOutcomes == \A r \in Requests : Responded(r) => OwnOutcome(r)

Local(q) ==
    <<inbound[q], rctx[q], pc[q], req[q], w[q], auditLog[q], ctx[q], g[q],
      resultCh[q], errCh[q], events[q]>>

OneRequestPerStep ==
    /\ <<token, devMode, e>>' = <<token, devMode, e>>
    /\ \E r \in Requests : \A q \in Requests \ {r} : Local(q)' = Local(q)

C14_Independent == []OwnOutcomes /\ [][OneRequestPerStep]_vars

\* One request timed out; the other, started at the same instant, succeeded.
C14_Witness ==
    \E r, q \in Requests :
        /\ Responded(r)
        /\ Responded(q)
        /\ Has(events[r], "respond DeadlineExceeded")
        /\ Status(r) = 408
        /\ Has(events[q], "respond completed")
        /\ Status(q) = 200
        /\ ctx[q].created = ctx[r].created

(***************************************************************************)
(* C15: the duration the deadline timer is started with is strictly        *)
(* positive, and is timeout_ms milliseconds when timeout_ms > 0 and 5000   *)
(* milliseconds when timeout_ms is zero (or absent) or negative.           *)
(***************************************************************************)
\* The time.Duration d is exactly ms milliseconds.
IsMilliseconds(d, ms) ==
    /\ DivMillisecond(d) = ms
    /\ MulMillisecond(DivMillisecond(d)) = d

C15_EffectiveTimeout ==
    \A r \in Requests :
        ctx[r].active =>
            /\ IsPositive(ctx[r].timeout)
            /\ IsMilliseconds(ctx[r].timeout,
                              IF IsPositive(inbound[r].body.val.timeout_ms)
                              THEN inbound[r].body.val.timeout_ms
                              ELSE Int64(5000))

(***************************************************************************)
(* C16: within a request the authorization check comes first and the       *)
(* decoding of the body after it; the audit emission is made before the    *)
(* deadline timer is started and before the engine is invoked; and a       *)
(* response of the race is written only once a case of the race is         *)
(* resolved: the engine's value was sent, or the context is done.          *)
(***************************************************************************)
Ordered(r) ==
    /\ events[r] # << >> => events[r][1] = "authorize"
    /\ Has(events[r], "decode") => Precedes(events[r], "authorize", "decode")
    /\ (ctx[r].active \/ Has(events[r], "start")) =>
          /\ Len(auditLog[r]) = 1
          /\ Precedes(events[r], "audit", "start")
    /\ g[r].pc # "none" => Len(auditLog[r]) = 1
    /\ Has(events[r], "query") =>
          /\ Precedes(events[r], "audit", "query")
          /\ Precedes(events[r], "start", "query")
    /\ Has(events[r], "respond completed") =>
          Precedes(events[r], "send", "respond completed")
    /\ Has(events[r], "respond failed") =>
          Precedes(events[r], "send", "respond failed")
    /\ (Has(events[r], "respond Canceled") \/ Has(events[r], "respond DeadlineExceeded")) =>
          /\ ctx[r].err # "none"
          /\ Precedes(events[r], "start", "respond " \o ctx[r].err)

\* The write of the select happens with a case of the race ready.
WriteAfterResolution ==
    \A r \in Requests :
        (pc[r] = "select" /\ w'[r] # w[r]) =>
            \/ ctx[r].err # "none"
            \/ Len(errCh[r]) > 0
            \/ Len(resultCh[r]) > 0

C16_Ordering == [](\A r \in Requests : Ordered(r)) /\ [][WriteAfterResolution]_vars

\* Every step of a request that slept in the engine and succeeded.
C16_Witness ==
    \E r \in Requests :
        events[r] = <<"authorize", "decode", "audit", "start", "query", "wake",
                      "send", "respond completed">>

(***************************************************************************)
(* C17: the engine is invoked at most once for a request, also after a     *)
(* failure or a timeout, and only for a request that passed the gate and   *)
(* whose body decoded.                                                     *)
(***************************************************************************)
C17_EngineInvokedAtMostOnce ==
    \A r \in Requests :
        /\ Count(events[r], "query") <= 1
        /\ Count(events[r], "start") <= 1
        /\ (Has(events[r], "query") \/ g[r].pc # "none") =>
              (Accepted(r) /\ WellFormed(r))
        /\ (~Accepted(r) \/ ~WellFormed(r)) => g[r] = NoGoroutine

\* The engine failed, the failure was answered, and the engine ran once.
C17_Witness ==
    \E r \in Requests :
        /\ Responded(r)
        /\ Has(events[r], "respond failed")
        /\ g[r].pc = "exit"
        /\ Count(events[r], "query") = 1

(***************************************************************************)
(* C18: the engine goroutine never waits in its send: the channel it sends *)
(* on has room when Engine.Query has returned; it sends one value on one   *)
(* channel; and in the end it has terminated, also when the handler        *)
(* answered 408 before: the late value stays in the buffer and the answer  *)
(* does not change.                                                        *)
(***************************************************************************)
SendNeverBlocks(r) ==
    /\ g[r].pc = "ret" =>
          Len(IF g[r].out.err # Nil THEN errCh[r] ELSE resultCh[r]) < ChanCap
    /\ Count(events[r], "send") <= 1
    /\ Len(resultCh[r]) + Len(errCh[r]) <= 1
    /\ (Responded(r) /\ Status(r) = 408 /\ g[r].pc = "exit") =>
          /\ Len(resultCh[r]) + Len(errCh[r]) = 1
          /\ Len(w[r].codes) = 1

GoroutinesTerminated == \A r \in Requests : g[r].pc \in {"none", "exit"}

C18_EngineAbandonedNotBlocked ==
    /\ [](\A r \in Requests : SendNeverBlocks(r))
    /\ <>[]GoroutinesTerminated

\* The deadline won, and the engine's goroutine sent its value afterwards.
C18_Witness ==
    \E r \in Requests :
        /\ Precedes(events[r], "respond DeadlineExceeded", "send")
        /\ g[r].pc = "exit"
        /\ Len(resultCh[r]) = 1
        /\ Status(r) = 408

(***************************************************************************)
(* C19: the status written is that of the outcome: 200 for a success, 400  *)
(* for a malformed body and for an engine failure, 401 for a failed        *)
(* authorization, 408 for a done context; and every body written with an   *)
(* error carries the status as the error's code, a success no error.       *)
(***************************************************************************)
C19_StatusOfOutcome ==
    \A r \in Requests :
        Responded(r) =>
            /\ Has(events[r], "respond completed") <=> Status(r) = 200
            /\ (Has(events[r], "respond malformed") \/ Has(events[r], "respond failed"))
                  <=> Status(r) = 400
            /\ Has(events[r], "respond unauthorized") <=> Status(r) = 401
            /\ (Has(events[r], "respond Canceled") \/
                Has(events[r], "respond DeadlineExceeded")) <=> Status(r) = 408
            /\ Status(r) \in {200, 400, 401, 408}
            /\ "error" \in Body(r).keys <=> Status(r) # 200
            /\ "error" \in Body(r).keys => Head(Body(r).error).code = Status(r)
            /\ ~Accepted(r) <=> Status(r) = 401
            /\ (Accepted(r) /\ ~WellFormed(r)) =>
                  (Status(r) = 400 /\ Has(events[r], "respond malformed"))

\* An engine failure, answered 400 with the engine's message.
C19_Witness ==
    \E r \in Requests :
        /\ Responded(r)
        /\ Has(events[r], "respond failed")
        /\ Status(r) = 400
        /\ Head(Body(r).error).code = 400
        /\ Head(Body(r).error).message # DecodeError

(***************************************************************************)
(* C20: for every limit and offset, the negative ones included, no slice   *)
(* expression of Engine.Query is out of range and the engine goroutine     *)
(* does not panic; the page is that of the offset and the limit with a     *)
(* negative value replaced by 0.                                           *)
(***************************************************************************)
Clamp(n) == IF n < 0 THEN 0 ELSE n

C20_NoSliceOutOfRange ==
    \A r \in Requests :
        /\ g[r].pc # "panic"
        /\ (EngineReturned(r) /\ g[r].out.err = Nil) =>
              /\ g[r].out.resp.rows # Panic
              /\ StatedPage(e.rows, Clamp(req[r].limit), Clamp(req[r].offset),
                            g[r].out.resp.rows)

\* A negative offset and a negative limit: all the rows.
C20_Witness ==
    \E r \in Requests :
        /\ g[r].pc = "exit"
        /\ req[r].offset = -1
        /\ req[r].limit = -1
        /\ Len(e.rows) = 3
        /\ g[r].out.resp.rows = e.rows

====
